---- MODULE Spec2Model ----
(***************************************************************************)
(* A model of currency_converter.CurrencyConverter: the loader of the rate *)
(* table (load_lines, _compute_bounds, _set_missing_to_none), the two gap  *)
(* fillers (_use_linear_interpolation, _use_last_known), the resolver      *)
(* (_get_rate) and convert.                                                *)
(*                                                                         *)
(* A date is its day number in March 2014 (datetime.date(2014, 3, n) is n; *)
(* a timedelta is a difference of day numbers).  A number (float or        *)
(* Decimal, whichever self.cast is) is an exact fraction [num, den] in     *)
(* lowest terms; Python's None is the record None.  A line of the input is *)
(* the sequence of its comma-separated fields.                             *)
(***************************************************************************)
EXTENDS Integers, Sequences, FiniteSets, TLC

VARIABLES
    fallback_on_wrong_date,           \* self.fallback_on_wrong_date
    fallback_on_missing_rate,         \* self.fallback_on_missing_rate
    fallback_on_missing_rate_method,  \* self.fallback_on_missing_rate_method
    _rates,                           \* self._rates: currency -> date -> rate or None
    bounds,                           \* self.bounds: currency -> Bounds
    currencies,                       \* self.currencies
    phase,                            \* "constructed", "loaded" or "failed"
    load_error,                       \* the exception load_lines raised, or None
    source,                           \* the lines load_lines was given, or None
    call,                             \* the arguments of the convert call in progress, or None
    outcome                           \* what that call returned or raised, or None

vars == <<fallback_on_wrong_date, fallback_on_missing_rate,
          fallback_on_missing_rate_method, _rates, bounds, currencies,
          phase, load_error, source, call, outcome>>

config == <<fallback_on_wrong_date, fallback_on_missing_rate,
            fallback_on_missing_rate_method>>

None == [kind |-> "None"]

\* What a call does: it returns a value or raises an exception.
Return(value) == [kind |-> "return", value |-> value]
Raise(error, message) == [kind |-> "raise", error |-> error, message |-> message]

-----------------------------------------------------------------------------
(* Bounds of the model.                                                    *)

\* The generated tables hold rows for GenSpan consecutive days.
GenSpan == 3

-----------------------------------------------------------------------------
(* Numbers: self.cast and the arithmetic of lines 260 and 362.             *)

Abs(n) == IF n < 0 THEN -n ELSE n

RECURSIVE GCD(_, _)
GCD(a, b) == IF b = 0 THEN a ELSE GCD(b, a % b)

\* The fraction n/d (d # 0) in lowest terms, with a positive denominator.
Frac(n, d) ==
    LET g == GCD(Abs(n), Abs(d))
        s == IF d < 0 THEN -1 ELSE 1
    IN  [num |-> s * (n \div g), den |-> s * (d \div g)]

Add(a, b) == Frac(a.num * b.den + b.num * a.den, a.den * b.den)
Mul(a, b) == Frac(a.num * b.num, a.den * b.den)
\* a / b, for b # 0 (Python raises ZeroDivisionError otherwise).
Div(a, b) == Frac(a.num * b.den, a.den * b.num)
IsZero(a) == a.num = 0

\* The text of the numbers the input tables hold, with the value float() or
\* Decimal() gives each.
Literals ==
    [text : {"0"},   num : {0},  den : {1}] \cup
    [text : {"0.5"}, num : {1},  den : {2}] \cup
    [text : {"1.5"}, num : {3},  den : {2}] \cup
    [text : {"2"},   num : {2},  den : {1}] \cup
    [text : {"4"},   num : {4},  den : {1}] \cup
    [text : {"6"},   num : {6},  den : {1}] \cup
    [text : {"18"},  num : {18}, den : {1}]

\* self.cast(rate): the number a field of the input spells.
cast(rate) == LET l == CHOOSE l \in Literals : l.text = rate IN Frac(l.num, l.den)

\* self.cast(amount), self.cast('1'), and an int operand of the arithmetic.
number(n) == Frac(n, 1)

-----------------------------------------------------------------------------
(* Dates.                                                                  *)

\* The days the model knows: 2014-03-21 .. 2014-03-30.
Calendar == 21..30

isoformat ==
    (21 :> "2014-03-21") @@ (22 :> "2014-03-22") @@ (23 :> "2014-03-23") @@
    (24 :> "2014-03-24") @@ (25 :> "2014-03-25") @@ (26 :> "2014-03-26") @@
    (27 :> "2014-03-27") @@ (28 :> "2014-03-28") @@ (29 :> "2014-03-29") @@
    (30 :> "2014-03-30")

\* parse_date(s): the date a '%Y-%m-%d' text names.
parse_date(s) == CHOOSE d \in Calendar : isoformat[d] = s

\* list_dates_between(first_date, last_date): all dates from first to last included.
list_dates_between(first_date, last_date) ==
    [n \in 1..(1 + (last_date - first_date)) |-> first_date + (n - 1)]

Min(S) == CHOOSE m \in S : \A o \in S : m <= o
Max(S) == CHOOSE m \in S : \A o \in S : m >= o

\* sorted(S) for a set of dates, ascending.
RECURSIVE sorted(_)
sorted(S) == IF S = {} THEN <<>> ELSE <<Min(S)>> \o sorted(S \ {Min(S)})

\* sorted(S, reverse=True).
reversed(s) == [i \in 1..Len(s) |-> s[Len(s) + 1 - i]]

Range(s) == {s[i] : i \in DOMAIN s}

-----------------------------------------------------------------------------
(* The configuration the constructor is given.                             *)

\* ref_currency='EUR' and na_values=frozenset(['', 'N/A']), the defaults.
ref_currency == "EUR"
na_values == {"", "N/A"}

\* The fill methods a caller may name; "nearest" is not one load_lines knows.
Methods == {"linear_interpolation", "last_known", "nearest"}

-----------------------------------------------------------------------------
(* The inputs of load_lines.                                               *)

\* The table of TestCustomObject.
TestTable ==
    << <<"Date", "USD", "AAA", "">>,
       <<"2014-03-29", "2", "N/A">>,
       <<"2014-03-27", "6", "0">>,
       <<"2014-03-23", "18", "N/A">>,
       <<"2014-03-22", "N/A", "0">> >>

GenDays == 23..(22 + GenSpan)

\* The rate a generated table gives a currency on a day it observes it.
GenRate(currency, d) ==
    LET i == ((d - 23) % 4) + 1
    IN  IF currency = "USD" THEN <<"18", "6", "2", "1.5">>[i]
                            ELSE <<"4", "0", "0.5", "4">>[i]

\* A file in the layout of the ECB's: a header ending in a comma, one row a
\* day, latest first, each ending in a comma; USD is observed on the days
\* U and AAA on the days A, a day neither is observed on has no row.
GenTable(U, A) ==
    LET days == reversed(sorted(U \cup A))
        row(d) == << isoformat[d],
                     IF d \in U THEN GenRate("USD", d) ELSE "N/A",
                     IF d \in A THEN GenRate("AAA", d) ELSE "",
                     "" >>
    IN  << <<"Date", "USD", "AAA", "">> >> \o [i \in 1..Len(days) |-> row(days[i])]

\* A file giving the date 2014-03-25 in two rows: the later row gives USD
\* another rate, and no rate of AAA.
TwiceTable ==
    << <<"Date", "USD", "AAA", "">>,
       <<"2014-03-25", "2", "0.5", "">>,
       <<"2014-03-23", "18", "4", "">>,
       <<"2014-03-25", "6", "N/A", "">> >>

\* A file whose header has a blank after a comma.
PaddedTable ==
    << <<"Date", " USD", "AAA", "">>,
       <<"2014-03-26", "6", "N/A", "">>,
       <<"2014-03-24", "18", "4", "">> >>

Tables ==
    {<<>>, TestTable, TwiceTable, PaddedTable}
        \cup {GenTable(U, A) : U \in SUBSET GenDays, A \in SUBSET GenDays}

-----------------------------------------------------------------------------
(* load_lines and what it calls.  The object is the record self; an        *)
(* operation gives the object it leaves and the exception it raised.       *)

Bounds(first_date, last_date) == [first_date |-> first_date, last_date |-> last_date]

\* str.strip() of a header field.
strip(s) == IF s = " USD" THEN "USD" ELSE s

\* The assignment keeping the rate a date already has.
setitem_once(r, currency, date, rate) ==
    IF currency \in DOMAIN r
    THEN IF date \in DOMAIN r[currency] THEN r
         ELSE [r EXCEPT ![currency] = (date :> rate) @@ @]
    ELSE (currency :> (date :> rate)) @@ r

\* _rates[currency][date] = rate, on a defaultdict(dict).
setitem(r, currency, date, rate) ==
    IF currency \in DOMAIN r
    THEN [r EXCEPT ![currency] = (date :> rate) @@ @]
    ELSE (currency :> (date :> rate)) @@ r

\* The loop of lines 185-188 over zip(header, line[1:]), from its i-th pair.
RECURSIVE load_fields(_, _, _, _, _)
load_fields(r, header, line, date, i) ==
    IF i > Len(header) \/ i + 1 > Len(line) THEN r
    ELSE LET currency == strip(header[i])
             rate == line[i + 1]
             r1 == IF rate \notin na_values /\ currency # ""
                   THEN setitem(r, currency, date, cast(rate))
                   ELSE r
         IN  load_fields(r1, header, line, date, i + 1)

\* The loop of lines 182-188 over the data lines, from the k-th line.
RECURSIVE load_rows(_, _, _, _)
load_rows(r, header, lines, k) ==
    IF k > Len(lines) THEN r
    ELSE load_rows(load_fields(r, header, lines[k], parse_date(lines[k][1]), 1),
                   header, lines, k + 1)

\* _compute_bounds giving the reference currency the dates every currency
\* has a rate between: the latest first date and the earliest last date.
compute_bounds_common(self) ==
    LET own == [currency \in DOMAIN self._rates |->
                   Bounds(Min(DOMAIN self._rates[currency]),
                          Max(DOMAIN self._rates[currency]))]
    IN  IF DOMAIN own = {}
        THEN [self |-> [self EXCEPT !.bounds = own], error |-> Raise("ValueError", "min() arg is an empty sequence")]
        ELSE [self |-> [self EXCEPT !.bounds =
                          (ref_currency :>
                             Bounds(Max({own[c].first_date : c \in DOMAIN own}),
                                    Min({own[c].last_date : c \in DOMAIN own}))) @@ own],
              error |-> None]

\* _compute_bounds: min() of no bounds at all raises ValueError.
_compute_bounds(self) ==
    LET own == [currency \in DOMAIN self._rates |->
                   Bounds(Min(DOMAIN self._rates[currency]),
                          Max(DOMAIN self._rates[currency]))]
    IN  IF DOMAIN own = {}
        THEN [self |-> [self EXCEPT !.bounds = own], error |-> Raise("ValueError", "min() arg is an empty sequence")]
        ELSE [self |-> [self EXCEPT !.bounds =
                          (ref_currency :>
                             Bounds(Min({own[c].first_date : c \in DOMAIN own}),
                                    Max({own[c].last_date : c \in DOMAIN own}))) @@ own],
              error |-> None]

\* _set_missing_to_none adding no date to the table of the currency.
set_missing_to_nothing(self, currency) == self

\* _set_missing_to_none(currency).
_set_missing_to_none(self, currency) ==
    LET rates == self._rates[currency]
        dates == list_dates_between(self.bounds[currency].first_date,
                                    self.bounds[currency].last_date)
    IN  [self EXCEPT !._rates[currency] =
            [date \in DOMAIN rates \cup Range(dates) |->
                IF date \in DOMAIN rates THEN rates[date] ELSE None]]

\* A local variable no assignment has bound yet.
Unbound == [kind |-> "Unbound"]

\* The interpolation with each rate weighted by its own distance.
interpolate_own_distance(r0, d0, r1, d1) ==
    Div(Add(Mul(r0, number(d0)), Mul(r1, number(d1))), number(d0 + d1))

\* Line 260: the rate of a date d0 days after the rate r0 and d1 days before r1.
interpolate(r0, d0, r1, d1) ==
    Div(Add(Mul(r0, number(d1)), Mul(r1, number(d0))), number(d0 + d1))

\* One pass of _use_linear_interpolation (lines 240-247 forward, 249-256
\* backward) over dates, from its i-th date.  loc holds the local variables
\* closest_rate and dist, found the side of tmp the pass fills.
RECURSIVE closest_pass(_, _, _, _, _)
closest_pass(rates, dates, i, loc, found) ==
    IF i > Len(dates) THEN [loc |-> loc, found |-> found, error |-> None]
    ELSE LET date == dates[i]
             rate == rates[date]
         IN  IF rate # None
             THEN closest_pass(rates, dates, i + 1,
                               [closest_rate |-> rate, dist |-> 0], found)
             ELSE IF loc = Unbound
             THEN [loc |-> loc, found |-> found, error |-> Raise("UnboundLocalError", "referenced before assignment")]
             ELSE LET dist == loc.dist + 1
                  IN  closest_pass(rates, dates, i + 1, [loc EXCEPT !.dist = dist],
                                   (date :> [rate |-> loc.closest_rate, dist |-> dist])
                                       @@ found)

\* _use_linear_interpolation(currency).  The backward pass starts with the
\* local variables as the forward pass left them.
_use_linear_interpolation(self, currency) ==
    LET rates == self._rates[currency]
        fwd == closest_pass(rates, sorted(DOMAIN rates), 1, Unbound, <<>>)
        bwd == closest_pass(rates, reversed(sorted(DOMAIN rates)), 1, fwd.loc, <<>>)
    IN  IF fwd.error # None THEN [self |-> self, error |-> fwd.error]
        ELSE [self |-> [self EXCEPT !._rates[currency] =
                          [date \in DOMAIN rates |->
                              IF date \in DOMAIN fwd.found
                              THEN interpolate(fwd.found[date].rate, fwd.found[date].dist,
                                               bwd.found[date].rate, bwd.found[date].dist)
                              ELSE rates[date]]],
              error |-> None]

\* The loop of _use_last_known keeping the first rate it met.
RECURSIVE first_known_pass(_, _, _, _)
first_known_pass(rates, dates, i, last_rate) ==
    IF i > Len(dates) THEN [rates |-> rates, error |-> None]
    ELSE LET date == dates[i]
             rate == rates[date]
         IN  IF rate # None
             THEN first_known_pass(rates, dates, i + 1,
                                   IF last_rate = Unbound THEN rate ELSE last_rate)
             ELSE first_known_pass([rates EXCEPT ![date] = last_rate],
                                   dates, i + 1, last_rate)

\* The loop of _use_last_known (lines 274-279) over dates, from its i-th date.
RECURSIVE last_known_pass(_, _, _, _)
last_known_pass(rates, dates, i, last_rate) ==
    IF i > Len(dates) THEN [rates |-> rates, error |-> None]
    ELSE LET date == dates[i]
             rate == rates[date]
         IN  IF rate # None THEN last_known_pass(rates, dates, i + 1, rate)
             ELSE IF last_rate = Unbound
             THEN [rates |-> rates, error |-> Raise("UnboundLocalError", "referenced before assignment")]
             ELSE last_known_pass([rates EXCEPT ![date] = last_rate],
                                  dates, i + 1, last_rate)

\* _use_last_known going through the dates latest first: the next known rate.
use_next_known(self, currency) ==
    LET rates == self._rates[currency]
        pass == last_known_pass(rates, reversed(sorted(DOMAIN rates)), 1, Unbound)
    IN  [self |-> [self EXCEPT !._rates[currency] = pass.rates], error |-> pass.error]

\* _use_last_known(currency).
_use_last_known(self, currency) ==
    LET rates == self._rates[currency]
        pass == last_known_pass(rates, sorted(DOMAIN rates), 1, Unbound)
    IN  [self |-> [self EXCEPT !._rates[currency] = pass.rates], error |-> pass.error]

\* sorted(self._rates): the currency codes in the order of str.
sorted_codes(S) == SelectSeq(<<"AAA", "EUR", "USD">>, LAMBDA c : c \in S)

\* The dispatch interpolating under any name but "last_known".
fill_by_default(self, currency) ==
    IF ~ self.fallback_on_missing_rate THEN [self |-> self, error |-> None]
    ELSE IF self.fallback_on_missing_rate_method = "last_known"
    THEN _use_last_known(self, currency)
    ELSE _use_linear_interpolation(self, currency)

\* The dispatch of lines 195-202 leaving the tables as they are when the
\* method is "last_known".
fill_interpolating_only(self, currency) ==
    IF ~ self.fallback_on_missing_rate THEN [self |-> self, error |-> None]
    ELSE LET method == self.fallback_on_missing_rate_method
         IN  IF method = "linear_interpolation"
             THEN _use_linear_interpolation(self, currency)
             ELSE IF method = "last_known"
             THEN [self |-> self, error |-> None]
             ELSE [self |-> self, error |-> Raise("ValueError", "Unknown fallback method")]

\* The dispatch of lines 195-202 for one currency.
fill(self, currency) ==
    IF ~ self.fallback_on_missing_rate THEN [self |-> self, error |-> None]
    ELSE LET method == self.fallback_on_missing_rate_method
         IN  IF method = "linear_interpolation"
             THEN _use_linear_interpolation(self, currency)
             ELSE IF method = "last_known"
             THEN _use_last_known(self, currency)
             ELSE [self |-> self, error |-> Raise("ValueError", "Unknown fallback method")]

\* The loop of lines 193-202 over codes, from its i-th code.
RECURSIVE fill_loop(_, _, _)
fill_loop(self, codes, i) ==
    IF i > Len(codes) THEN [self |-> self, error |-> None]
    ELSE LET done == fill(_set_missing_to_none(self, codes[i]), codes[i])
         IN  IF done.error # None THEN done ELSE fill_loop(done.self, codes, i + 1)

\* load_lines taking every code of the header for a currency of the set.
load_lines_header_currencies(self, lines) ==
    IF lines = <<>>
    THEN [self |-> [self EXCEPT !._rates = <<>>], error |-> Raise("StopIteration", "")]
    ELSE LET header == Tail(lines[1])
             r == load_rows(<<>>, header, lines, 2)
             codes == {strip(header[i]) : i \in 1..Len(header)} \ {""}
             parsed == [self EXCEPT !._rates = r,
                                    !.currencies = codes \cup {ref_currency}]
             bounded == _compute_bounds(parsed)
         IN  IF bounded.error # None THEN bounded
             ELSE fill_loop(bounded.self, sorted_codes(DOMAIN r), 1)

\* load_lines(lines).
load_lines(self, lines) ==
    IF lines = <<>>
    THEN [self |-> [self EXCEPT !._rates = <<>>], error |-> Raise("StopIteration", "")]
    ELSE LET header == Tail(lines[1])
             r == load_rows(<<>>, header, lines, 2)
             parsed == [self EXCEPT !._rates = r,
                                    !.currencies = DOMAIN r \cup {ref_currency}]
             bounded == _compute_bounds(parsed)
         IN  IF bounded.error # None THEN bounded
             ELSE fill_loop(bounded.self, sorted_codes(DOMAIN r), 1)

-----------------------------------------------------------------------------
(* _get_rate and convert.                                                  *)

\* The lookup taking a missing rate for a rate of 0.
stored_rate_or_zero(self, currency, date) ==
    LET rate == self._rates[currency][date]
    IN  IF rate = None THEN Return(number(0)) ELSE Return(rate)

\* Lines 320-323: the rate stored for a date that is a key of the table.
stored_rate(self, currency, date) ==
    LET rate == self._rates[currency][date]
    IN  IF rate = None THEN Raise("RateNotFoundError", "has no rate")
        ELSE Return(rate)

\* _get_rate checking the date against the bounds of the reference currency too.
get_rate_reference_in_bounds(self, currency, date) ==
    IF date < self.bounds[currency].first_date \/ date > self.bounds[currency].last_date
    THEN IF ~ self.fallback_on_wrong_date
         THEN Raise("RateNotFoundError", "not in bounds")
         ELSE IF currency = ref_currency THEN Return(number(1))
         ELSE IF date < self.bounds[currency].first_date
         THEN stored_rate(self, currency, self.bounds[currency].first_date)
         ELSE stored_rate(self, currency, self.bounds[currency].last_date)
    ELSE IF currency = ref_currency THEN Return(number(1))
    ELSE stored_rate(self, currency, date)

\* _get_rate with the two boundary dates of the fallback exchanged.
get_rate_wrong_boundary(self, currency, date) ==
    IF currency = ref_currency THEN Return(number(1))
    ELSE IF date \notin DOMAIN self._rates[currency]
    THEN LET first_date == self.bounds[currency].first_date
             last_date == self.bounds[currency].last_date
         IN  IF ~ self.fallback_on_wrong_date
             THEN Raise("RateNotFoundError", "not in bounds")
             ELSE IF date < first_date THEN stored_rate(self, currency, last_date)
             ELSE IF date > last_date THEN stored_rate(self, currency, first_date)
             ELSE Raise("AssertionError", "Should never happen, bug in the code!")
    ELSE stored_rate(self, currency, date)

\* _get_rate(currency, date).
_get_rate(self, currency, date) ==
    IF currency = ref_currency THEN Return(number(1))
    ELSE IF date \notin DOMAIN self._rates[currency]
    THEN LET first_date == self.bounds[currency].first_date
             last_date == self.bounds[currency].last_date
         IN  IF ~ self.fallback_on_wrong_date
             THEN Raise("RateNotFoundError", "not in bounds")
             ELSE IF date < first_date THEN stored_rate(self, currency, first_date)
             ELSE IF date > last_date THEN stored_rate(self, currency, last_date)
             ELSE Raise("AssertionError", "Should never happen, bug in the code!")
    ELSE stored_rate(self, currency, date)

\* self._rates after a read of self._rates[currency]: a defaultdict(dict)
\* (line 175) that has no such key holds it, with an empty dict, afterwards.
touched(r, currency) ==
    IF currency \in DOMAIN r THEN r ELSE (currency :> <<>>) @@ r

\* _get_rate reading the table before it looks at the reference currency.
get_rate_reads_first(self, currency, date) == touched(self._rates, currency)

\* self._rates after _get_rate(currency, date): line 298 returns before any
\* read of the table, lines 300 and 320 read self._rates[currency].
get_rate_leaves(self, currency, date) ==
    IF currency = ref_currency THEN self._rates
    ELSE touched(self._rates, currency)

\* A date argument: None, a datetime.date or a datetime.datetime.
a_date(d) == [kind |-> "date", day |-> d]
a_datetime(d, h) == [kind |-> "datetime", day |-> d, hour |-> h]

\* The date of a call without a date taken from the reference currency.
date_of_reference(self, currency, date) ==
    IF date = None THEN self.bounds[ref_currency].last_date
    ELSE date.day

\* Lines 351-357: the date convert resolves the rates for.
date_of(self, currency, date) ==
    IF date = None THEN self.bounds[currency].last_date
    ELSE date.day

\* convert taking the amount for an amount of the reference currency.
convert_from_reference(self, amount, currency, new_currency, date) ==
    IF currency \notin self.currencies \/ new_currency \notin self.currencies
    THEN Raise("ValueError", "is not a supported currency")
    ELSE LET r1 == _get_rate(self, new_currency, date_of(self, currency, date))
         IN  IF r1.kind = "raise" THEN r1
             ELSE Return(Mul(number(amount), r1.value))

\* convert checking the target currency after it resolved the source's rate.
convert_late_check(self, amount, currency, new_currency, date) ==
    IF currency \notin self.currencies
    THEN Raise("ValueError", "is not a supported currency")
    ELSE LET day == date_of(self, currency, date)
             r0 == _get_rate(self, currency, day)
         IN  IF r0.kind = "raise" THEN r0
             ELSE IF new_currency \notin self.currencies
             THEN Raise("ValueError", "is not a supported currency")
             ELSE LET r1 == _get_rate(self, new_currency, day)
                  IN  IF r1.kind = "raise" THEN r1
                      ELSE IF IsZero(r0.value)
                      THEN Raise("ZeroDivisionError", "division by zero")
                      ELSE Return(Mul(Div(number(amount), r0.value), r1.value))

\* convert resolving the target's rate for the target's own last date.
convert_two_dates(self, amount, currency, new_currency, date) ==
    IF currency \notin self.currencies \/ new_currency \notin self.currencies
    THEN Raise("ValueError", "is not a supported currency")
    ELSE LET r0 == _get_rate(self, currency, date_of(self, currency, date))
             r1 == _get_rate(self, new_currency, self.bounds[new_currency].last_date)
         IN  IF r0.kind = "raise" THEN r0
             ELSE IF r1.kind = "raise" THEN r1
             ELSE IF IsZero(r0.value) THEN Raise("ZeroDivisionError", "division by zero")
             ELSE Return(Mul(Div(number(amount), r0.value), r1.value))

\* convert(amount, currency, new_currency, date).
convert(self, amount, currency, new_currency, date) ==
    IF currency \notin self.currencies \/ new_currency \notin self.currencies
    THEN Raise("ValueError", "is not a supported currency")
    ELSE LET day == date_of(self, currency, date)
             r0 == _get_rate(self, currency, day)
             r1 == _get_rate(self, new_currency, day)
         IN  IF r0.kind = "raise" THEN r0
             ELSE IF r1.kind = "raise" THEN r1
             ELSE IF IsZero(r0.value) THEN Raise("ZeroDivisionError", "division by zero")
             ELSE Return(Mul(Div(number(amount), r0.value), r1.value))

\* self._rates after convert(amount, currency, new_currency, date): what the
\* calls of _get_rate it came to (lines 359-360) leave.
convert_leaves(self, amount, currency, new_currency, date) ==
    IF currency \notin self.currencies \/ new_currency \notin self.currencies
    THEN self._rates
    ELSE LET day == date_of(self, currency, date)
             r0 == _get_rate(self, currency, day)
             left == get_rate_leaves(self, currency, day)
         IN  IF r0.kind = "raise" THEN left
             ELSE get_rate_leaves([self EXCEPT !._rates = left], new_currency, day)

-----------------------------------------------------------------------------
(* The state machine: __init__ sets the options (lines 144-155), the lines *)
(* are loaded once (lines 157-158, or load_lines on the new object), and a *)
(* converter whose load raised nothing is called, one call at a time.      *)

\* The object, as the record the operations take.
Self ==
    [fallback_on_wrong_date |-> fallback_on_wrong_date,
     fallback_on_missing_rate |-> fallback_on_missing_rate,
     fallback_on_missing_rate_method |-> fallback_on_missing_rate_method,
     _rates |-> _rates, bounds |-> bounds, currencies |-> currencies]

\* The arguments convert is called with; "XXX" is a code no table holds.
Amounts == {1, 10}
Codes == {"EUR", "USD", "AAA", "XXX"}
DateArgs == {None} \cup {a_date(d) : d \in Calendar}
                   \cup {a_datetime(d, 12) : d \in Calendar}

\* __init__ down to line 155: the options are set, nothing is loaded.
Init ==
    /\ fallback_on_wrong_date \in BOOLEAN
    /\ fallback_on_missing_rate \in BOOLEAN
    /\ fallback_on_missing_rate_method \in Methods
    /\ _rates = None
    /\ bounds = None
    /\ currencies = None
    /\ phase = "constructed"
    /\ load_error = None
    /\ source = None
    /\ call = None
    /\ outcome = None

\* load_lines(lines), on a converter nothing was loaded into.
LoadLines ==
    /\ phase = "constructed"
    /\ \E lines \in Tables :
          LET done == load_lines(Self, lines)
          IN  /\ _rates' = done.self._rates
              /\ bounds' = done.self.bounds
              /\ currencies' = done.self.currencies
              /\ load_error' = done.error
              /\ phase' = IF done.error = None THEN "loaded" ELSE "failed"
              /\ source' = lines
    /\ UNCHANGED <<config, call, outcome>>

\* convert(amount, currency, new_currency, date), on a loaded converter.
Convert ==
    /\ phase = "loaded"
    /\ call = None
    /\ \E amount \in Amounts, currency \in Codes, new_currency \in Codes, date \in DateArgs :
          /\ call' = [op |-> "convert", amount |-> amount, currency |-> currency,
                      new_currency |-> new_currency, date |-> date]
          /\ outcome' = convert(Self, amount, currency, new_currency, date)
          /\ _rates' = convert_leaves(Self, amount, currency, new_currency, date)
    /\ UNCHANGED <<config, bounds, currencies, phase, load_error, source>>

\* _get_rate(currency, date), for a currency of the currency set.
GetRate ==
    /\ phase = "loaded"
    /\ call = None
    /\ \E currency \in currencies, date \in Calendar :
          /\ call' = [op |-> "_get_rate", currency |-> currency, date |-> date]
          /\ outcome' = _get_rate(Self, currency, date)
          /\ _rates' = get_rate_leaves(Self, currency, date)
    /\ UNCHANGED <<config, bounds, currencies, phase, load_error, source>>

\* The caller takes what the call returned or raised.
Returned ==
    /\ call # None
    /\ call' = None
    /\ outcome' = None
    /\ UNCHANGED <<config, _rates, bounds, currencies, phase, load_error, source>>

Next == LoadLines \/ Convert \/ GetRate \/ Returned

Spec == Init /\ [][Next]_vars

-----------------------------------------------------------------------------
(* What the input says, read off the lines given to load_lines.            *)

\* The call in progress is a call of op.
IsCall(op) == call # None /\ call.op = op

\* The data lines that hold a rate of currency c for the date d.
RowsOf(c, d) ==
    {k \in 2..Len(source) :
        /\ source[k][1] = isoformat[d]
        /\ \E i \in 2..Len(source[k]) :
              /\ i <= Len(source[1])
              /\ strip(source[1][i]) = c
              /\ source[k][i] \notin na_values}

\* The input holds a rate of c for d, and the dates it holds one for.
Observed(c, d) == RowsOf(c, d) # {}
ObservedDates(c) == {d \in Calendar : Observed(c, d)}

\* The rate the input holds of c for d: the last one, if it holds several.
InputRate(c, d) ==
    LET k == Max(RowsOf(c, d))
        i == Max({j \in 2..Len(source[k]) :
                    j <= Len(source[1]) /\ strip(source[1][j]) = c /\ source[k][j] \notin na_values})
    IN  cast(source[k][i])

\* d is outside the bounds of c.
OutOfBounds(c, d) == d < bounds[c].first_date \/ d > bounds[c].last_date

\* v = x / a * b, for a # 0, stated on the numerators and denominators.
IsCrossRate(v, x, a, b) == v.num * a.num * b.den = x * a.den * b.num * v.den

-----------------------------------------------------------------------------
(* The claims.                                                             *)

\* C1: a convert call given a date d for which the rates of both currencies
\* resolve evaluates amount / resolve(currency, d) * resolve(new_currency, d),
\* both rates resolved for d (the division raises when the first rate is 0);
\* in particular convert(10, EUR, USD, d) is 20 when resolve(USD, d) is 2.
C1_ConvertIsCrossRate ==
    (IsCall("convert") /\ call.date # None
        /\ call.currency \in currencies /\ call.new_currency \in currencies) =>
    LET d == call.date.day
        rate_from == _get_rate(Self, call.currency, d)
        rate_to == _get_rate(Self, call.new_currency, d)
    IN  (rate_from.kind = "return" /\ rate_to.kind = "return") =>
        /\ IF rate_from.value.num = 0
           THEN outcome.kind = "raise" /\ outcome.error = "ZeroDivisionError"
           ELSE /\ outcome.kind = "return"
                /\ IsCrossRate(outcome.value, call.amount, rate_from.value, rate_to.value)
        /\ (call.amount = 10 /\ call.currency = "EUR" /\ call.new_currency = "USD"
               /\ rate_to.value = [num |-> 2, den |-> 1])
           => outcome = Return([num |-> 20, den |-> 1])

\* C1's case: a conversion between two currencies of the table, at a date
\* given, that returned an amount other than 0.
C1_Witness ==
    /\ IsCall("convert") /\ call.date # None
    /\ call.currency = "USD" /\ call.new_currency = "AAA"
    /\ outcome.kind = "return" /\ outcome.value.num # 0

\* C2: for a currency other than the reference one and a date outside its
\* bounds, resolve raises RateNotFoundError when fallback_on_wrong_date is
\* off, and gives what it gives for the first date of the bounds (date before
\* them) or the last (date after them) when it is on.
C2_OutOfBoundsDate ==
    (IsCall("_get_rate") /\ call.currency # ref_currency
        /\ OutOfBounds(call.currency, call.date)) =>
    IF ~ fallback_on_wrong_date
    THEN outcome.kind = "raise" /\ outcome.error = "RateNotFoundError"
    ELSE outcome = _get_rate(Self, call.currency,
                             IF call.date < bounds[call.currency].first_date
                             THEN bounds[call.currency].first_date
                             ELSE bounds[call.currency].last_date)

\* C2's case: with the fallback on, a date before the bounds of USD resolved
\* to a rate that is not the one of the last date.
C2_Witness ==
    /\ IsCall("_get_rate") /\ call.currency = "USD" /\ fallback_on_wrong_date
    /\ call.date < bounds["USD"].first_date
    /\ outcome.kind = "return"
    /\ outcome # _get_rate(Self, "USD", bounds["USD"].last_date)

\* The call in progress resolves currency c for a date inside its bounds
\* for which the input holds no rate of c.
ResolvesGap(c) ==
    /\ IsCall("_get_rate") /\ call.currency = c
    /\ ~ OutOfBounds(c, call.date) /\ ~ Observed(c, call.date)

\* The dates nearest to d, before and after it, the input holds a rate of c for.
Before(c, d) == {e \in ObservedDates(c) : e < d}
After(c, d) == {e \in ObservedDates(c) : e > d}

\* o returns the rate interpolated for d between the rates of c nearest to d:
\* v = (r0*d1 + r1*d0) / (d0 + d1), stated on the numerators and denominators.
IsInterpolated(o, c, d) ==
    /\ Before(c, d) # {} /\ After(c, d) # {}
    /\ LET d0 == d - Max(Before(c, d))
           d1 == Min(After(c, d)) - d
           r0 == InputRate(c, Max(Before(c, d)))
           r1 == InputRate(c, Min(After(c, d)))
       IN  /\ o.kind = "return"
           /\ o.value.num * (d0 + d1) * r0.den * r1.den =
                  o.value.den * (r0.num * r1.den * d1 + r1.num * r0.den * d0)

\* o returns the rate the input holds of c for the latest date before d it
\* holds one for.
IsLastKnown(o, c, d) ==
    /\ Before(c, d) # {}
    /\ o = Return(InputRate(c, Max(Before(c, d))))

Interpolating ==
    fallback_on_missing_rate /\ fallback_on_missing_rate_method = "linear_interpolation"
UsingLastKnown ==
    fallback_on_missing_rate /\ fallback_on_missing_rate_method = "last_known"

\* C3, as claimed: with the linear interpolation, every currency resolves,
\* for a date inside its bounds the input holds no rate for, to the rate
\* interpolated between the nearest rates before and after the date.
C3_AnyCurrencyInterpolated ==
    \A c \in {"EUR", "USD", "AAA"} :
        (Interpolating /\ ResolvesGap(c)) => IsInterpolated(outcome, c, call.date)

\* C3, amended: with the linear interpolation, every currency other than the
\* reference one resolves, for a date inside its bounds the input holds no
\* rate for, to (r0*d1 + r1*d0) / (d0 + d1), r0 the nearest rate before the
\* date, d0 days away, and r1 the nearest after it, d1 days away; USD of the
\* test table resolves to 9 for 2014-03-26 and to 4 for 2014-03-28.
C3_Interpolated ==
    \A c \in {"USD", "AAA"} :
        (Interpolating /\ ResolvesGap(c)) =>
            /\ IsInterpolated(outcome, c, call.date)
            /\ (source = TestTable /\ c = "USD" /\ call.date = 26)
                   => outcome = Return([num |-> 9, den |-> 1])
            /\ (source = TestTable /\ c = "USD" /\ call.date = 28)
                   => outcome = Return([num |-> 4, den |-> 1])

\* C3's case: a rate interpolated between two rates at different distances.
C3_Witness ==
    /\ Interpolating /\ ResolvesGap("USD") /\ outcome.kind = "return"
    /\ call.date - Max(Before("USD", call.date)) # Min(After("USD", call.date)) - call.date

\* C4, as claimed: with the last known rate, every currency resolves, for a
\* date inside its bounds the input holds no rate for, to the rate of the
\* latest date before it the input holds one for, and there is such a date.
C4_AnyCurrencyLastKnown ==
    \A c \in {"EUR", "USD", "AAA"} :
        (UsingLastKnown /\ ResolvesGap(c)) => IsLastKnown(outcome, c, call.date)

\* C4, amended: the same of every currency other than the reference one.
C4_LastKnown ==
    \A c \in {"USD", "AAA"} :
        (UsingLastKnown /\ ResolvesGap(c)) => IsLastKnown(outcome, c, call.date)

\* C4's case: a date filled with the last known rate, which is neither the
\* first rate of the currency nor the next one.
C4_Witness ==
    /\ UsingLastKnown /\ ResolvesGap("USD") /\ outcome.kind = "return"
    /\ outcome.value # InputRate("USD", bounds["USD"].first_date)
    /\ outcome.value # InputRate("USD", Min(After("USD", call.date)))

\* The call in progress resolves USD for 2014-03-26, the test table loaded
\* with the last known rate filling the gaps.
C5_Case ==
    /\ IsCall("_get_rate") /\ call.currency = "USD" /\ call.date = 26
    /\ source = TestTable /\ UsingLastKnown

\* C5, as claimed: USD of the test table (18 on 2014-03-23, 6 on 2014-03-27,
\* 2 on 2014-03-29) resolves to 6 for 2014-03-26 with the last known rate.
C5_TestTableGives6 == C5_Case => outcome = Return([num |-> 6, den |-> 1])

\* C5, amended: it resolves to 18, the rate of 2014-03-23, the latest date
\* before 2014-03-26 with a rate.
C5_TestTableGives18 == C5_Case => outcome = Return([num |-> 18, den |-> 1])

\* C5's case has happened.
C5_Witness == C5_Case /\ outcome.kind = "return"

\* The fill method is none load_lines knows.
Unrecognized ==
    fallback_on_missing_rate_method \notin {"linear_interpolation", "last_known"}

\* A load was attempted, raised, and no call was made on the converter.
LoadFailed == phase = "failed" /\ load_error.kind = "raise" /\ call = None

ConvertsGap(c) ==
    /\ IsCall("convert") /\ call.date # None
    /\ call.currency \in currencies /\ call.new_currency \in currencies
    /\ c \in {call.currency, call.new_currency}
    /\ ~ OutOfBounds(c, call.date.day) /\ ~ Observed(c, call.date.day)

RateNotFound == outcome.kind = "raise" /\ outcome.error = "RateNotFoundError"

\* C7, as claimed: with fallback_on_missing_rate off, resolving any currency
\* for a date inside its bounds the input holds no rate for raises
\* RateNotFoundError.
C7_AnyCurrencyMissingRate ==
    \A c \in {"EUR", "USD", "AAA"} :
        (~ fallback_on_missing_rate /\ ResolvesGap(c)) => RateNotFound

\* C7, amended: with fallback_on_missing_rate off, resolving a currency other
\* than the reference one for a date inside its bounds the input holds no
\* rate for raises RateNotFoundError, and so does a conversion from or to
\* that currency for that date, whatever fallback_on_wrong_date is.
C7_MissingRate ==
    \A c \in {"USD", "AAA"} :
        (~ fallback_on_missing_rate /\ (ResolvesGap(c) \/ ConvertsGap(c))) => RateNotFound

\* C7's case: a conversion to a currency with no rate for the date, the
\* fallback on wrong dates being on.
C7_Witness ==
    /\ ~ fallback_on_missing_rate /\ fallback_on_wrong_date
    /\ ConvertsGap("USD") /\ call.new_currency = "USD" /\ call.currency = "EUR"
    /\ outcome.kind = "raise"

\* C8: converting from the reference currency to itself returns the amount,
\* whatever the date, given or not, inside the bounds or not, and the options.
C8_ReferenceIdentity ==
    (IsCall("convert") /\ call.currency = ref_currency
        /\ call.new_currency = ref_currency) =>
    outcome = Return([num |-> call.amount, den |-> 1])

\* C8's case: the reference currency converted to itself for a date outside
\* its bounds, fallback_on_wrong_date being off.
C8_Witness ==
    /\ IsCall("convert") /\ call.currency = ref_currency
    /\ call.new_currency = ref_currency
    /\ call.date # None /\ OutOfBounds(ref_currency, call.date.day)
    /\ ~ fallback_on_wrong_date
    /\ outcome.kind = "return"

\* The conversion of 1 the other way, for the date of the call in progress.
Back == convert(Self, 1, call.new_currency, call.currency, call.date)

\* The call in progress returned amount * (1 / w): v * w = amount.
IsInverseOf(w) ==
    /\ w.num # 0
    /\ outcome.value.num * w.num = call.amount * w.den * outcome.value.den

\* C9, as claimed: a conversion for a date given that returns an amount
\* returns amount * (1 / convert(1, new_currency, currency, date)).
C9_InverseWheneverReturned ==
    (IsCall("convert") /\ call.date # None /\ outcome.kind = "return") =>
        Back.kind = "return" /\ IsInverseOf(Back.value)

\* C9, amended: it does whenever the conversion of 1 the other way returns
\* an amount too.
C9_InverseWheneverBothReturned ==
    (IsCall("convert") /\ call.date # None /\ outcome.kind = "return"
        /\ Back.kind = "return") =>
        IsInverseOf(Back.value)

\* C9's case: a conversion between two currencies of the table whose
\* conversion the other way returns too.
C9_Witness ==
    /\ IsCall("convert") /\ call.date # None /\ call.amount = 10
    /\ call.currency = "AAA" /\ call.new_currency = "USD"
    /\ outcome.kind = "return" /\ Back.kind = "return"

\* C10: a conversion from or to a code that is not in the currency set
\* raises ValueError, whatever the date and the options.
C10_InvalidCurrency ==
    (IsCall("convert")
        /\ (call.currency \notin currencies \/ call.new_currency \notin currencies)) =>
    outcome.kind = "raise" /\ outcome.error = "ValueError"

\* C10's case: the target is no currency of the set and the source has no
\* rate for the date: ValueError is raised, not RateNotFoundError.
C10_Witness ==
    /\ IsCall("convert") /\ call.currency = "USD" /\ "USD" \in currencies
    /\ call.new_currency \notin currencies
    /\ call.date # None /\ OutOfBounds("USD", call.date.day)
    /\ ~ fallback_on_wrong_date
    /\ outcome.kind = "raise" /\ outcome.error = "ValueError"


\* The load completed and the converter is between two calls: the state the
\* load left, or the state a call left when it returned or raised.
AfterLoad == phase = "loaded" /\ call = None

\* The currency codes of the header row, the empty ones left out.
HeaderCodes == {strip(source[1][i]) : i \in 2..Len(source[1])} \ {""}

\* C11 as stated: after a load, the currency set is the set of the non-empty
\* codes of the header row together with the reference currency, whatever
\* the table; a column holding nothing but missing-value tokens counts.
C11_AllHeaderCodes ==
    AfterLoad => currencies = HeaderCodes \cup {ref_currency}

\* C11, amended: after a load, the currency set is the set of the non-empty
\* codes of the header row the data lines hold at least one rate of,
\* together with the reference currency; the code of a column holding
\* nothing but missing-value tokens, and the empty code of the column a
\* trailing comma makes, are not in it.
C11_ObservedHeaderCodes ==
    AfterLoad =>
        currencies = {c \in HeaderCodes : ObservedDates(c) # {}} \cup {ref_currency}

\* A table was loaded whose AAA column holds missing-value tokens only.
C11_Witness ==
    /\ AfterLoad
    /\ "AAA" \in HeaderCodes
    /\ ObservedDates("AAA") = {}
    /\ currencies = {"USD", ref_currency}


\* The currencies of the set but the reference currency.
Quoted == currencies \ {ref_currency}

\* C12: after a load, the bounds of every currency c but the reference
\* currency are the earliest and the latest of the dates the input holds a
\* rate of c for, whatever dates the load added to the table of c and
\* whatever it filled them with; the bounds of the reference currency are
\* the earliest first date and the latest last date of the bounds of the
\* other currencies.
C12_Bounds ==
    AfterLoad =>
        /\ \A c \in Quoted :
              bounds[c] = Bounds(Min(ObservedDates(c)), Max(ObservedDates(c)))
        /\ bounds[ref_currency] =
              Bounds(Min({bounds[c].first_date : c \in Quoted}),
                     Max({bounds[c].last_date : c \in Quoted}))

\* The test table was loaded and its gaps filled: the three currencies have
\* three different bounds.
C12_Witness ==
    /\ AfterLoad
    /\ fallback_on_missing_rate
    /\ source = TestTable
    /\ None \notin Range([d \in 23..29 |-> _rates["USD"][d]])
    /\ bounds["USD"] = Bounds(23, 29)
    /\ bounds["AAA"] = Bounds(22, 27)
    /\ bounds[ref_currency] = Bounds(22, 29)


\* C13: a convert call without a date resolves the rate of the source
\* currency and the rate of the target currency for one date, the last date
\* of the bounds of the source currency: what it returns or raises is what
\* the two rates resolved for that date give, and is what the same call
\* returns or raises when given that date.
C13_NoDate ==
    (IsCall("convert") /\ call.date = None /\ call.currency \in currencies) =>
        LET last_date == bounds[call.currency].last_date
            r0 == _get_rate(Self, call.currency, last_date)
            r1 == _get_rate(Self, call.new_currency, last_date)
        IN  /\ outcome = convert(Self, call.amount, call.currency,
                                  call.new_currency, a_date(last_date))
            /\ call.new_currency \in currencies =>
                  /\ r0.kind = "raise" => outcome = r0
                  /\ (r0.kind = "return" /\ r1.kind = "raise") => outcome = r1
                  /\ (r0.kind = "return" /\ r1.kind = "return" /\ ~ IsZero(r0.value)) =>
                        /\ outcome.kind = "return"
                        /\ IsCrossRate(outcome.value, call.amount, r0.value, r1.value)

\* convert(1, "AAA", "USD") on the table with the padded header: AAA has
\* its last rate, 4, on the 24th, when USD is at 18; the last rate of USD
\* is the 6 of the 26th.  The call returns 1 / 4 * 18.
C13_Witness ==
    /\ IsCall("convert")
    /\ source = PaddedTable
    /\ call.date = None
    /\ call.amount = 1
    /\ call.currency = "AAA"
    /\ call.new_currency = "USD"
    /\ bounds["AAA"].last_date < bounds["USD"].last_date
    /\ outcome = Return(Div(number(9), number(2)))


\* The converter of the same options with nothing loaded into it, and the
\* converter a load of the same lines into it leaves.
Constructed == [Self EXCEPT !._rates = None, !.bounds = None, !.currencies = None]
Fresh == load_lines(Constructed, source).self

\* C14: a step of a converter whose load completed, the start or the end of
\* a call whatever the call returns or raises, leaves the rate table, the
\* bounds and the currency set as they are, and a convert call that starts
\* returns or raises what it does on a new converter of the same options
\* the same lines were loaded into.
C14_CallsLeaveTheLoad ==
    [][phase = "loaded" =>
          /\ _rates' = _rates
          /\ bounds' = bounds
          /\ currencies' = currencies
          /\ (call = None /\ call' # None /\ call'.op = "convert") =>
                outcome' = convert(Fresh, call'.amount, call'.currency,
                                   call'.new_currency, call'.date)]_vars

\* A convert call on the test table raised RateNotFoundError, and the table
\* is the table the load left.
C14_Witness ==
    /\ IsCall("convert")
    /\ source = TestTable
    /\ outcome.kind = "raise"
    /\ outcome.error = "RateNotFoundError"
    /\ _rates = Fresh._rates


\* C15: after a completed load, the dates that are keys of the rate table of
\* a currency c other than the reference currency are the days from the
\* first date to the last date of the bounds of c, all of them and no
\* other; so _get_rate finds a date not to be a key exactly when the date is
\* outside the bounds of c, and no call raises the AssertionError of line 312.
C15_KeysAreTheBounds ==
    /\ AfterLoad =>
          \A c \in Quoted :
              DOMAIN _rates[c] = bounds[c].first_date .. bounds[c].last_date
    /\ (IsCall("_get_rate") /\ call.currency # ref_currency) =>
          (call.date \notin DOMAIN _rates[call.currency]
              <=> OutOfBounds(call.currency, call.date))
    /\ call # None =>
          ~ (outcome.kind = "raise" /\ outcome.error = "AssertionError")

\* The test table was loaded with no filling and the rate of USD is asked
\* for the 25th, a date between its bounds the input has no row of: the
\* date is a key, and the call raises RateNotFoundError for a missing rate.
C15_Witness ==
    /\ IsCall("_get_rate")
    /\ source = TestTable
    /\ call.currency = "USD"
    /\ call.date = 25
    /\ ~ Observed("USD", 25)
    /\ DOMAIN _rates["USD"] = 23..29
    /\ outcome = Raise("RateNotFoundError", "has no rate")


\* C16: after a completed load with fallback_on_missing_rate set, under
\* either fill method, no date of the table of any currency holds None, so
\* no _get_rate call raises RateNotFoundError for a missing rate; with
\* fallback_on_wrong_date set as well, _get_rate returns a rate for every
\* currency of the currency set and every date.
C16_NoMissingRateLeft ==
    /\ (AfterLoad /\ fallback_on_missing_rate) =>
          \A c \in Quoted : \A d \in DOMAIN _rates[c] : _rates[c][d] # None
    /\ (IsCall("_get_rate") /\ fallback_on_missing_rate) =>
          /\ outcome # Raise("RateNotFoundError", "has no rate")
          /\ fallback_on_wrong_date => outcome.kind = "return"

\* With both options set and the method "last_known", the rate of USD of
\* the test table is asked for the 26th, which the input has no row of.
C16_Witness ==
    /\ IsCall("_get_rate")
    /\ fallback_on_missing_rate
    /\ fallback_on_wrong_date
    /\ fallback_on_missing_rate_method = "last_known"
    /\ source = TestTable
    /\ call.currency = "USD"
    /\ call.date = 26
    /\ ~ Observed("USD", 26)
    /\ outcome.kind = "return"


\* C17: the load alters no rate of the input.  Under every setting of the
\* two options and either fill method, the table holds, for every currency
\* c and every date d the input holds a rate of c for, that rate, the one of
\* the last row if several rows give one, and _get_rate returns it; and a
\* rate the load filled in is computed from rates of the input alone: the
\* interpolated one from the nearest rate of the input on either side, the
\* last known one from the nearest rate of the input before it.
C17_ObservedRatesKept ==
    /\ AfterLoad =>
          \A c \in Quoted :
              /\ \A d \in ObservedDates(c) : _rates[c][d] = InputRate(c, d)
              /\ \A d \in DOMAIN _rates[c] \ ObservedDates(c) :
                    /\ ~ fallback_on_missing_rate => _rates[c][d] = None
                    /\ Interpolating => IsInterpolated(Return(_rates[c][d]), c, d)
                    /\ UsingLastKnown => IsLastKnown(Return(_rates[c][d]), c, d)
    /\ (IsCall("_get_rate") /\ call.currency # ref_currency
                            /\ Observed(call.currency, call.date)) =>
          outcome = Return(InputRate(call.currency, call.date))

\* The input gives USD a rate for the 25th in two rows, 2 and then 6, and
\* none for the 24th, which the load filled; _get_rate returns 6 for the 25th.
C17_Witness ==
    /\ IsCall("_get_rate")
    /\ source = TwiceTable
    /\ fallback_on_missing_rate
    /\ call.currency = "USD"
    /\ call.date = 25
    /\ Cardinality(RowsOf("USD", 25)) = 2
    /\ _rates["USD"][24] # None
    /\ outcome = Return(number(6))

====
